---- MODULE Spec2Model ----
(***************************************************************************)
(* Multi-body dynamics engine: the MultiRigidBody orchestrator and the     *)
(* RigidBody tree (classes/MultiRigidBody.py, classes/RigidBody.py).       *)
(*                                                                         *)
(* Numbers are exact integers (solutions of the linear system are reduced  *)
(* fractions); 3-vectors are triples, matrices are sequences of rows.      *)
(* Joint, SpringDamper, BilateralConstraint and skew live in modules the   *)
(* two classes import; they are modelled from their contracts: a Joint is  *)
(* a one-degree-of-freedom translational joint owning index qIndex of the  *)
(* global vectors.                                                         *)
(***************************************************************************)
EXTENDS Integers, Sequences, FiniteSets, TLC

(* ------------------------------ bounds -------------------------------- *)
\* largest generalized-coordinate count passed to setup, and the longest
\* vector a caller hands to the state operations
MaxNq == 2
\* largest entry of a q / qDot / qDDot vector supplied by the caller
MaxVal == 1
\* calls of the single-body operations (integrationStep,
\* computeNaturalDynamics) in one run
MaxBodyOps == 1

(* --------------------------- linear algebra --------------------------- *)
\* a sequence given as a function, with its entries evaluated once
Tup(f) == f \o << >>

zeros(n) == Tup([i \in 1..n |-> 0])

zerosMat(r, c) == Tup([i \in 1..r |-> zeros(c)])

eye(n) == Tup([i \in 1..n |-> Tup([j \in 1..n |-> IF i = j THEN 1 ELSE 0])])

VAdd(u, v) == Tup([i \in 1..Len(u) |-> u[i] + v[i]])

VSub(u, v) == Tup([i \in 1..Len(u) |-> u[i] - v[i]])

VScale(c, u) == Tup([i \in 1..Len(u) |-> c * u[i]])

RECURSIVE SumTo(_, _)
SumTo(f, n) == IF n = 0 THEN 0 ELSE f[n] + SumTo(f, n - 1)

RECURSIVE DotTo(_, _, _)
DotTo(u, v, n) == IF n = 0 THEN 0 ELSE u[n] * v[n] + DotTo(u, v, n - 1)

Dot(u, v) == DotTo(u, v, Len(u))

\* number of columns of a matrix with at least one row
NCols(A) == Len(A[1])

Col(A, j) == Tup([i \in 1..Len(A) |-> A[i][j]])

Transpose(A) == Tup([j \in 1..NCols(A) |-> Col(A, j)])

MatVec(A, v) == Tup([i \in 1..Len(A) |-> Dot(A[i], v)])

\* A @ B, given the transpose Bt of B
MatMulT(A, Bt) == Tup([i \in 1..Len(A) |-> Tup([j \in 1..Len(Bt) |-> Dot(A[i], Bt[j])])])

MatMul(A, B) == MatMulT(A, Transpose(B))

MatAdd(A, B) == Tup([i \in 1..Len(A) |-> VAdd(A[i], B[i])])

MatScale(c, A) == Tup([i \in 1..Len(A) |-> VScale(c, A[i])])

skew(w) ==
  << << 0, -w[3], w[2] >>,
     << w[3], 0, -w[1] >>,
     << -w[2], w[1], 0 >> >>

\* the matrix A without row i and column j
Minor(A, i, j) ==
  Tup([r \in 1..(Len(A) - 1) |->
     Tup([c \in 1..(Len(A) - 1) |->
        A[IF r < i THEN r ELSE r + 1][IF c < j THEN c ELSE c + 1]])])

RECURSIVE Det(_)
Det(A) ==
  IF Len(A) = 0 THEN 1
  ELSE IF Len(A) = 1 THEN A[1][1]
  ELSE SumTo(Tup([j \in 1..Len(A) |->
                IF A[1][j] = 0 THEN 0
                ELSE (IF j % 2 = 1 THEN 1 ELSE -1) * A[1][j] * Det(Minor(A, 1, j))]),
             Len(A))

Abs(x) == IF x < 0 THEN -x ELSE x

RECURSIVE Gcd(_, _)
Gcd(a, b) == IF b = 0 THEN a ELSE Gcd(b, a % b)

\* the fraction n/d (d # 0) in lowest terms with a positive denominator
Frac(n, d) ==
  LET g == Gcd(Abs(n), Abs(d))
      s == IF d < 0 THEN -1 ELSE 1
  IN  << (s * n) \div g, (s * d) \div g >>

ReplaceCol(A, j, b) ==
  Tup([r \in 1..Len(A) |-> Tup([c \in 1..Len(A) |-> IF c = j THEN b[r] ELSE A[r][c]])])

\* numpy.linalg.inv of a 3x3 matrix: LinAlgError on a singular matrix,
\* otherwise adjugate / determinant (exact for the unit-determinant inertia
\* tensors the bodies carry)
inv(A) ==
  LET d == Det(A)
  IN  IF d = 0 THEN [err |-> "LinAlgError", val |-> << >>]
      ELSE [err |-> "none",
            val |-> Tup([i \in 1..3 |-> Tup([j \in 1..3 |->
                       ((IF (i + j) % 2 = 0 THEN 1 ELSE -1) * Det(Minor(A, j, i))) \div d])])]

\* numpy.linalg.solve(A, b)[0:n]: LinAlgError on a singular matrix, otherwise
\* the first n entries of the unique solution (Cramer's rule, reduced
\* fractions); d is the determinant of A
solveWith(A, b, n, d) ==
      IF d = 0 THEN [err |-> "LinAlgError", val |-> << >>]
      ELSE [err |-> "none",
            val |-> Tup([i \in 1..n |-> Frac(Det(ReplaceCol(A, i, b)), d)])]

solve(A, b, n) == solveWith(A, b, n, Det(A))

\* scipy.linalg.expm at the zero matrix; the translational joints keep every
\* angular velocity at zero, so no other argument is ever evaluated
expm(S) == IF S = zerosMat(3, 3) THEN eye(3) ELSE MatAdd(eye(3), S)

(* ----------------------- the mechanism (construction) ------------------ *)
\* Body 0 is the Ground; body b >= 1 hangs on its parent through joint b.
\* A system is what the caller builds before the first operation:
\*   childJoints[b+1]  the ordered child joints of body b (joint j carries body j)
\*   axis[j], qIndex[j] the translation axis and the owned index of joint j
\*   m_B[j]            the mass of body j
\*   cons              the BilateralConstraints: per constraint its rows and sigma
\*   springs           the SpringDampers: per spring the shape of its tau
ex == << 1, 0, 0 >>

ez == << 0, 0, 1 >>

\* magnitude of the default gravity vector (0, 0, -9.81), in cm/s^2
Grav == 981

I_grav == << 0, 0, -Grav >>

Chain == << << 1 >>, << 2 >>, << >> >>

Star == << << 1, 2 >>, << >>, << >> >>

Single == << << 1 >>, << >> >>

Systems ==
  { [childJoints |-> Star, axis |-> << ez, ex >>, qIndex |-> << 1, 2 >>,
     m_B |-> << 2, 1 >>,
     cons |-> << [rows |-> << "e2" >>, sigma |-> << 1 >>],
                 [rows |-> << "eN" >>, sigma |-> << 1 >>] >>,
     springs |-> << "ones" >>],
    [childJoints |-> Chain, axis |-> << ez, ex >>, qIndex |-> << 1, 2 >>,
     m_B |-> << 1, 2 >>,
     cons |-> << [rows |-> << "pm" >>, sigma |-> << 1 >>],
                 [rows |-> << "ones", "zero" >>, sigma |-> << 0, 1 >>] >>,
     springs |-> << >>],
    [childJoints |-> Single, axis |-> << ez >>, qIndex |-> << 1 >>,
     m_B |-> << 1 >>, cons |-> << >>, springs |-> << "ones" >>],
    [childJoints |-> Single, axis |-> << ex >>, qIndex |-> << 1 >>,
     m_B |-> << 2 >>,
     cons |-> << [rows |-> << "e2" >>, sigma |-> << 1 >>] >>,
     springs |-> << >>] }

NBodies(s) == Len(s.m_B)

Bodies(s) == 0..NBodies(s)

childJointsOf(s, b) == s.childJoints[b + 1]

\* RigidBody.m_B and RigidBody.B_I_B: Ground is RigidBody(m_B=0, B_I_B=zeros),
\* every other body carries its mass and the default inertia tensor eye(3)
m_BOf(s, b) == IF b = 0 THEN 0 ELSE s.m_B[b]

B_I_BOf(s, b) == IF b = 0 THEN zerosMat(3, 3) ELSE eye(3)

\* size(self.parentJoint) == 0
isRoot(b) == b = 0

(* ------------------------------- state --------------------------------- *)
VARIABLES
  sys,      \* the mechanism handed to MultiRigidBody.__init__ (never changes)
  _nq,      \* MultiRigidBody._nq
  joints,   \* per joint: the stored q, qDot, qDDot of its degree of freedom
  bodies,   \* per body: the RigidBody state fields
  ret,      \* the latest call: its name, the exception it raised, its return value
  locals,   \* the latest call's arguments and local variables when it ended
  nBodyOps  \* how many single-body operations the run has made

vars == << sys, _nq, joints, bodies, ret, locals, nBodyOps >>

\* RigidBody.__init__: identity orientation, zero twist and accelerations; the
\* Jacobians B_J_S / B_J_R do not exist before the first kinematics pass (<< >>).
\* nans names the vector fields that hold NaN in every component (0/0 in
\* computeNaturalDynamics of a massless body).
InitBody ==
  [A_IB |-> eye(3), B_omega_B |-> zeros(3), B_omegaDot_B |-> zeros(3),
   B_r_IB |-> zeros(3), B_v_B |-> zeros(3), B_a_B |-> zeros(3),
   B_J_S |-> << >>, B_J_R |-> << >>, nans |-> {}]

InitJoint == [q |-> 0, qDot |-> 0, qDDot |-> 0]

NoLocals ==
  [q |-> << >>, qDot |-> << >>, qDDot |-> << >>, trace |-> << >>,
   accBefore |-> << >>, accAtFK |-> << >>, accAtMfg |-> << >>,
   Mfg |-> << >>, tau |-> << >>, J_gathered |-> << >>, sigma_gathered |-> << >>,
   colkeep |-> << >>, J_lambda |-> << >>, sigma_lambda |-> << >>, nc |-> 0,
   A |-> << >>, b |-> << >>]

Ret(op, err, val) == [op |-> op, err |-> err, val |-> val]

Init ==
  /\ sys \in Systems
  /\ _nq = 0
  /\ joints = [j \in 1..NBodies(sys) |-> InitJoint]
  /\ bodies = [b \in Bodies(sys) |-> InitBody]
  /\ ret = Ret("__init__", "none", << >>)
  /\ locals = NoLocals
  /\ nBodyOps = 0

(* ---------------------- MultiRigidBody.nq / setup ---------------------- *)
\* a faulty variant: assert self._nq >= 0
nq_nonnegative(n) == [err |-> IF n >= 0 THEN "none" ELSE "AssertionError", val |-> n]

\* the nq property: assert self._nq > 0, then return self._nq
nq(n) == [err |-> IF n > 0 THEN "none" ELSE "AssertionError", val |-> n]

\* setup(nq): self._nq = nq
setup(n) ==
  /\ _nq' = n
  /\ ret' = Ret("setup", "none", << >>)
  /\ locals' = NoLocals
  /\ UNCHANGED << sys, joints, bodies, nBodyOps >>

(* ------------------- state distribution / collection ------------------- *)
RECURSIVE Joint_recursive_setall_q(_, _, _, _, _, _)
RECURSIVE Joint_setall_children(_, _, _, _, _, _, _)

\* Joint._recursive_setall_q: store the owned slice of the three vectors, then
\* recurse into the joints of the successor body; an index outside a vector
\* raises IndexError before anything of this joint is written
Joint_recursive_setall_q(s, st, j, q, qDot, qDDot) ==
  LET i == s.qIndex[j]
  IN  IF st.err # "none" THEN st
      ELSE IF i > Len(q) \/ i > Len(qDot) \/ i > Len(qDDot)
      THEN [st EXCEPT !.err = "IndexError"]
      ELSE Joint_setall_children(s,
             [st EXCEPT !.joints[j] = [q |-> q[i], qDot |-> qDot[i], qDDot |-> qDDot[i]]],
             childJointsOf(s, j), 1, q, qDot, qDDot)

Joint_setall_children(s, st, list, k, q, qDot, qDDot) ==
  IF k > Len(list) THEN st
  ELSE Joint_setall_children(s, Joint_recursive_setall_q(s, st, list[k], q, qDot, qDDot),
                             list, k + 1, q, qDot, qDDot)

RECURSIVE setall_loop(_, _, _, _, _, _, _)
\* for childJoint in self.ground.childJoints: childJoint._recursive_setall_q(...)
setall_loop(s, st, list, k, q, qDot, qDDot) ==
  IF k > Len(list) THEN st
  ELSE setall_loop(s, Joint_recursive_setall_q(s, st, list[k], q, qDot, qDDot),
                   list, k + 1, q, qDot, qDDot)

\* MultiRigidBody.recursive_setall_q: the joints afterwards and the exception
recursive_setall_q(s, js, q, qDot, qDDot) ==
  setall_loop(s, [joints |-> js, err |-> "none"], childJointsOf(s, 0), 1, q, qDot, qDDot)

RECURSIVE Joint_recursive_getall_q(_, _, _, _)
RECURSIVE Joint_getall_children(_, _, _, _, _)

\* Joint._recursive_getall_q: write the stored values back into the owned
\* slice of the vectors handed in, recurse, return the vectors
Joint_recursive_getall_q(s, js, j, acc) ==
  LET i == s.qIndex[j]
  IN  IF acc.err # "none" THEN acc
      ELSE IF i > Len(acc.q) THEN [acc EXCEPT !.err = "IndexError"]
      ELSE Joint_getall_children(s, js,
             [acc EXCEPT !.q[i] = js[j].q, !.qDot[i] = js[j].qDot, !.qDDot[i] = js[j].qDDot],
             childJointsOf(s, j), 1)

Joint_getall_children(s, js, acc, list, k) ==
  IF k > Len(list) THEN acc
  ELSE Joint_getall_children(s, js, Joint_recursive_getall_q(s, js, list[k], acc), list, k + 1)

RECURSIVE getall_loop(_, _, _, _, _)
\* for childJoint in self.ground.childJoints:
\*     q, qDot, qDDot = childJoint._recursive_getall_q(q, qDot, qDDot)
getall_loop(s, js, acc, list, k) ==
  IF k > Len(list) THEN acc
  ELSE getall_loop(s, js, Joint_recursive_getall_q(s, js, list[k], acc), list, k + 1)

\* a faulty variant: every child joint is handed fresh zero vectors, so only what the
\* last child subtree wrote survives
RECURSIVE getall_loop_fresh(_, _, _, _, _)
getall_loop_fresh(s, js, acc, list, k) ==
  IF k > Len(list) THEN acc
  ELSE getall_loop_fresh(s, js,
         Joint_recursive_getall_q(s, js, list[k],
            [acc EXCEPT !.q = zeros(Len(acc.q)), !.qDot = zeros(Len(acc.q)),
                        !.qDDot = zeros(Len(acc.q))]),
         list, k + 1)

recursive_getall_q_fresh(s, n, js) ==
  IF nq(n).err # "none" THEN [err |-> nq(n).err, q |-> << >>, qDot |-> << >>, qDDot |-> << >>]
  ELSE getall_loop_fresh(s, js,
         [err |-> "none", q |-> zeros(n), qDot |-> zeros(n), qDDot |-> zeros(n)],
         childJointsOf(s, 0), 1)

\* MultiRigidBody.recursive_getall_q: zeros(self.nq) three times, then the loop
recursive_getall_q(s, n, js) ==
  IF nq(n).err # "none" THEN [err |-> nq(n).err, q |-> << >>, qDot |-> << >>, qDDot |-> << >>]
  ELSE getall_loop(s, js,
         [err |-> "none", q |-> zeros(n), qDot |-> zeros(n), qDDot |-> zeros(n)],
         childJointsOf(s, 0), 1)

(* ------------------------- forward kinematics -------------------------- *)
RECURSIVE _recursiveForwardKinematics(_, _, _, _, _, _)
RECURSIVE Joint_recursiveForwardKinematics(_, _, _, _, _, _)
RECURSIVE FK_children(_, _, _, _, _, _)

\* the state the root takes at the start of a pass
RootState(n) ==
  [A_IB |-> eye(3), B_omega_B |-> zeros(3), B_omegaDot_B |-> zeros(3),
   B_r_IB |-> zeros(3), B_v_B |-> zeros(3), B_a_B |-> zeros(3),
   B_J_S |-> zerosMat(3, n), B_J_R |-> zerosMat(3, n), nans |-> {}]

\* a faulty variant: the root resets its Jacobians only and keeps the orientation,
\* twist and accelerations it holds
FK_self_keep(old, b, n, in) ==
  IF isRoot(b) THEN [old EXCEPT !.B_J_S = zerosMat(3, n), !.B_J_R = zerosMat(3, n)]
  ELSE [in EXCEPT !.nans = {}]

\* the assignments of RigidBody._recursiveForwardKinematics to self: the root
\* resets itself, any other body copies what its parent joint handed down
FK_self(old, b, n, in) ==
  IF isRoot(b) THEN RootState(n) ELSE [in EXCEPT !.nans = {}]

\* RigidBody._recursiveForwardKinematics: set the own state, then call every
\* child joint with the own, newly set state
_recursiveForwardKinematics(s, st, js, b, n, in) ==
  IF st.err # "none" THEN st
  ELSE FK_children(s, [st EXCEPT !.bodies[b] = FK_self(st.bodies[b], b, n, in)],
                   js, b, 1, n)

FK_children(s, st, js, b, k, n) ==
  IF k > Len(childJointsOf(s, b)) THEN st
  ELSE FK_children(s,
         Joint_recursiveForwardKinematics(s, st, js, childJointsOf(s, b)[k], n, st.bodies[b]),
         js, b, k + 1, n)

\* Joint._recursiveForwardKinematics for a translational joint along axis:
\* the successor keeps the parent's orientation and angular motion, is
\* displaced by q along the axis, moves with qDot and accelerates with qDDot,
\* and its translational Jacobian gains the axis in column qIndex (IndexError
\* when that column does not exist); then the successor body's own pass runs
Joint_recursiveForwardKinematics(s, st, js, j, n, p) ==
  LET i == s.qIndex[j]
      a == s.axis[j]
      suc == [A_IB |-> p.A_IB,
              B_omega_B |-> p.B_omega_B,
              B_omegaDot_B |-> p.B_omegaDot_B,
              B_r_IB |-> VAdd(p.B_r_IB, VScale(js[j].q, a)),
              B_v_B |-> VAdd(p.B_v_B, VScale(js[j].qDot, a)),
              B_a_B |-> VAdd(p.B_a_B, VScale(js[j].qDDot, a)),
              B_J_S |-> Tup([r \in 1..3 |-> Tup([c \in 1..n |->
                           p.B_J_S[r][c] + (IF c = i THEN a[r] ELSE 0)])]),
              B_J_R |-> p.B_J_R,
              nans |-> {}]
  IN  IF st.err # "none" THEN st
      ELSE IF i > n THEN [st EXCEPT !.err = "IndexError"]
      ELSE _recursiveForwardKinematics(s, st, js, j, n, suc)

\* MultiRigidBody.updateKinTree: self.ground._recursiveForwardKinematics(nq=self.nq)
updateKinTree(s, n, js, bs) ==
  IF nq(n).err # "none" THEN [bodies |-> bs, err |-> nq(n).err]
  ELSE _recursiveForwardKinematics(s, [bodies |-> bs, err |-> "none"], js, 0, n, << >>)

(* ------------------------ dynamics accumulation ------------------------ *)
\* lines 121-126 with B the body's state, m and I its mass and inertia, and
\* JSt, JRt, At the transposes of B_J_S, B_J_R, A_IB
MfgTerms(B, m, I, JSt, JRt, At) ==
  [M |-> MatAdd(MatMul(MatScale(m, JSt), B.B_J_S),
                MatMul(MatMul(JRt, I), B.B_J_R)),
   f |-> VSub(MatVec(MatScale(m, MatScale(-1, JSt)), B.B_a_B),
              MatVec(JRt, VAdd(MatVec(I, B.B_omegaDot_B),
                               MatVec(MatMul(skew(B.B_omega_B), I), B.B_omega_B)))),
   g |-> VAdd(VScale(m, MatVec(MatMul(JSt, At), I_grav)),
              MatVec(MatMul(JRt, At), zeros(3)))]

\* the contribution of one body
MfgLocal(s, bs, b) ==
  MfgTerms(bs[b], m_BOf(s, b), B_I_BOf(s, b),
           Transpose(bs[b].B_J_S), Transpose(bs[b].B_J_R), Transpose(bs[b].A_IB))

\* a faulty variant: M = M_part instead of M += M_part (likewise f and g)
MfgAdd_overwrite(acc, part) == part

\* M += M_part; f += f_part; g += g_part
MfgAdd(acc, part) ==
  [M |-> MatAdd(acc.M, part.M), f |-> VAdd(acc.f, part.f), g |-> VAdd(acc.g, part.g)]

RECURSIVE _recursiveComputationOfMfg(_, _, _)
RECURSIVE Mfg_children(_, _, _, _, _)

\* RigidBody._recursiveComputationOfMfg: the own contribution plus, child after
\* child, the total of each child's successor body
_recursiveComputationOfMfg(s, bs, b) ==
  Mfg_children(s, bs, MfgLocal(s, bs, b), childJointsOf(s, b), 1)

Mfg_children(s, bs, acc, list, k) ==
  IF k > Len(list) THEN acc
  ELSE Mfg_children(s, bs, MfgAdd(acc, _recursiveComputationOfMfg(s, bs, list[k])),
                    list, k + 1)

(* ----------------------- single-body operations ------------------------ *)
\* the delta_t argument of integrationStep: one whole time unit, so that the
\* Euler update stays in the integers
delta_t == 1

NanIf(c, name) == IF c THEN {name} ELSE {}

\* RigidBody.integrationStep(delta_t)
integrationStep(B) ==
  LET B_omega_IB == skew(B.B_omega_B)
      I_omega_IB == skew(MatVec(B.A_IB, B.B_omega_B))
  IN  [B EXCEPT
         !.B_r_IB = VAdd(B.B_r_IB,
                         VScale(delta_t, VSub(B.B_v_B, MatVec(B_omega_IB, B.B_r_IB)))),
         !.B_v_B = VAdd(B.B_v_B,
                        VScale(delta_t, VSub(B.B_a_B, MatVec(B_omega_IB, B.B_v_B)))),
         !.A_IB = MatMul(expm(MatScale(delta_t, I_omega_IB)), B.A_IB),
         !.B_omega_B = VAdd(B.B_omega_B, VScale(delta_t, B.B_omegaDot_B)),
         !.nans = NanIf("B_r_IB" \in B.nans \/ "B_v_B" \in B.nans, "B_r_IB")
                  \cup NanIf("B_v_B" \in B.nans \/ "B_a_B" \in B.nans, "B_v_B")
                  \cup NanIf("B_a_B" \in B.nans, "B_a_B")]

\* RigidBody.computeNaturalDynamics: B_a_B = zeros / m_B (NaN for a massless
\* body), then B_omegaDot_B = inv(B_I_B) @ (0 - skew(omega) @ (B_I_B @ omega)),
\* which raises LinAlgError before the assignment when B_I_B is singular
computeNaturalDynamics(s, B, b) ==
  LET B_L_B == MatVec(B_I_BOf(s, b), B.B_omega_B)
      B_omega_IB == skew(B.B_omega_B)
      Iinv == inv(B_I_BOf(s, b))
      B1 == [B EXCEPT !.B_a_B = zeros(3),
                      !.nans = (B.nans \ {"B_a_B"}) \cup NanIf(m_BOf(s, b) = 0, "B_a_B")]
  IN  IF Iinv.err # "none" THEN [body |-> B1, err |-> Iinv.err]
      ELSE [body |-> [B1 EXCEPT !.B_omegaDot_B =
                         MatVec(Iinv.val, VSub(zeros(3), MatVec(B_omega_IB, B_L_B)))],
            err |-> "none"]

(* ---------------------- evaluateAccelerations (getODE) ----------------- *)
\* BilateralConstraint.getConstraintTerms: the Jacobian row of each shape for
\* n generalized coordinates
Row(kind, n) ==
  CASE kind = "zero" -> zeros(n)
    [] kind = "e2"   -> Tup([i \in 1..n |-> IF i = 2 THEN 1 ELSE 0])
    [] kind = "eN"   -> Tup([i \in 1..n |-> IF i = n THEN 1 ELSE 0])
    [] kind = "ones" -> Tup([i \in 1..n |-> 1])
    [] kind = "pm"   -> Tup([i \in 1..n |-> IF i = 1 THEN 1 ELSE IF i = n THEN -1 ELSE 0])

getConstraintTerms(c, n) ==
  [J |-> Tup([k \in 1..Len(c.rows) |-> Row(c.rows[k], n)]), sigma |-> c.sigma]

\* SpringDamper.computationOfTau: an nq-vector
computationOfTau(kind, n) == Tup([i \in 1..n |-> 1])

RECURSIVE sumTau(_, _, _)
\* tau = 0; for springdamper in self.springDampers: tau += ...computationOfTau()
sumTau(springs, k, n) ==
  IF k = 0 THEN zeros(n)
  ELSE VAdd(sumTau(springs, k - 1, n), computationOfTau(springs[k], n))

RECURSIVE gatherConstraints(_, _, _)
\* the loop of lines 51-55: vstack the terms of the constraints, in list order
gatherConstraints(cons, k, n) ==
  IF k = 0 THEN [J |-> << >>, sigma |-> << >>]
  ELSE LET rest == gatherConstraints(cons, k - 1, n)
           t == getConstraintTerms(cons[k], n)
       IN  [J |-> rest.J \o t.J, sigma |-> rest.sigma \o t.sigma]

\* a faulty variant: every row is kept
rowKept_all(row) == TRUE

\* colkeep = sum(J_lambda, axis=1) != 0, for one row
rowKept(row) == SumTo(row, Len(row)) # 0

RECURSIVE keptRows(_, _)
\* the indices k <= upTo with colkeep[k], in increasing order
keptRows(colkeep, upTo) ==
  IF upTo = 0 THEN << >>
  ELSE IF colkeep[upTo] THEN Append(keptRows(colkeep, upTo - 1), upTo)
  ELSE keptRows(colkeep, upTo - 1)

select(J, sigma, colkeep, idx) ==
  [colkeep |-> colkeep,
   J |-> Tup([k \in 1..Len(idx) |-> J[idx[k]]]),
   sigma |-> Tup([k \in 1..Len(idx) |-> sigma[idx[k]]]),
   nc |-> Len(idx)]

selectKept(J, sigma, colkeep) == select(J, sigma, colkeep, keptRows(colkeep, Len(colkeep)))

\* lines 60-63: colkeep, J_lambda[colkeep, :], sigma_lambda[colkeep], colkeep.sum()
dropRows(J, sigma) == selectKept(J, sigma, Tup([k \in 1..Len(J) |-> rowKept(J[k])]))

saddlePoint(M, rhs, d, n) ==
  [colkeep |-> d.colkeep, J_lambda |-> d.J, sigma_lambda |-> d.sigma, nc |-> d.nc,
   A |-> Tup([r \in 1..(n + d.nc) |->
            IF r <= n
            THEN M[r] \o Tup([k \in 1..d.nc |-> -d.J[k][r]])
            ELSE d.J[r - n] \o zeros(d.nc)]),
   b |-> rhs \o Tup([k \in 1..d.nc |-> -d.sigma[k]])]

\* lines 57-72: the system handed to solve
assemble(M, rhs, gathered, n) ==
  IF Len(gathered.sigma) # 0
  THEN saddlePoint(M, rhs, dropRows(gathered.J, gathered.sigma), n)
  ELSE [colkeep |-> << >>, J_lambda |-> << >>, sigma_lambda |-> << >>, nc |-> 0,
        A |-> M, b |-> rhs]

\* a faulty variant: a singular system is answered with zero accelerations
solveSystem_fallback(A, b, n) ==
  IF solve(A, b, n).err # "none"
  THEN [err |-> "none", val |-> Tup([i \in 1..n |-> << 0, 1 >>])]
  ELSE solve(A, b, n)

\* line 75: solve(A, b)[0:self.nq]
solveSystem(A, b, n) == solve(A, b, n)

\* a faulty variant: only q and qDot are distributed, the stored qDDot stays
distribute_keepAcc(s, n, js, q, qDot) ==
  LET st == recursive_setall_q(s, js, q, qDot, zeros(n))
  IN  [st EXCEPT !.joints = [j \in DOMAIN js |-> [st.joints[j] EXCEPT !.qDDot = js[j].qDDot]]]

\* line 36: recursive_setall_q(q=q, qDot=qDot, qDDot=zeros(self.nq))
distribute(s, n, js, q, qDot) == recursive_setall_q(s, js, q, qDot, zeros(n))

accOf(js) == Tup([j \in DOMAIN js |-> js[j].qDDot])

\* lines 74-77: solve and return; the local variables of the completed call
getODE_solve(n, args, set, fk, mfg, tau, gathered, sysAb) ==
  LET sol == solveSystem(sysAb.A, sysAb.b, n)
  IN  [joints |-> set.joints, bodies |-> fk.bodies, err |-> sol.err, val |-> sol.val,
       locals |-> [args EXCEPT
          !.trace = << "distribute", "kinematics", "accumulate", "gather", "solve" >>,
          !.accAtFK = accOf(set.joints), !.accAtMfg = accOf(set.joints),
          !.Mfg = mfg, !.tau = tau,
          !.J_gathered = gathered.J, !.sigma_gathered = gathered.sigma,
          !.colkeep = sysAb.colkeep, !.J_lambda = sysAb.J_lambda,
          !.sigma_lambda = sysAb.sigma_lambda, !.nc = sysAb.nc,
          !.A = sysAb.A, !.b = sysAb.b]]

\* lines 57-72, with tauC = 0
getODE_assemble(n, args, set, fk, mfg, tau, gathered) ==
  getODE_solve(n, args, set, fk, mfg, tau, gathered,
               assemble(mfg.M, VAdd(VAdd(VAdd(mfg.f, mfg.g), tau), zeros(n)), gathered, n))

\* lines 40-55
getODE_accumulate(s, n, args, set, fk) ==
  IF fk.err # "none"
  THEN [joints |-> set.joints, bodies |-> fk.bodies, err |-> fk.err, val |-> << >>,
        locals |-> [args EXCEPT !.trace = << "distribute", "kinematics" >>,
                                !.accAtFK = accOf(set.joints)]]
  ELSE getODE_assemble(n, args, set, fk,
                       _recursiveComputationOfMfg(s, fk.bodies, 0),
                       sumTau(s.springs, Len(s.springs), n),
                       gatherConstraints(s.cons, Len(s.cons), n))

\* line 39
getODE_kinematics(s, n, bs, args, set) ==
  IF set.err # "none"
  THEN [joints |-> set.joints, bodies |-> bs, err |-> set.err, val |-> << >>,
        locals |-> [args EXCEPT !.trace = << "distribute" >>]]
  ELSE getODE_accumulate(s, n, args, set, updateKinTree(s, n, set.joints, bs))

\* MultiRigidBody.getODE(q, qDot): the joints and bodies it leaves, the
\* exception or the returned qDDot, and its local variables (accBefore is the
\* qDDot the joints stored when the call began)
getODE(s, n, js, bs, q, qDot) ==
  IF nq(n).err # "none"
  THEN [joints |-> js, bodies |-> bs, err |-> nq(n).err, val |-> << >>,
        locals |-> [NoLocals EXCEPT !.q = q, !.qDot = qDot, !.accBefore = accOf(js)]]
  ELSE getODE_kinematics(s, n, bs,
                         [NoLocals EXCEPT !.q = q, !.qDot = qDot, !.accBefore = accOf(js)],
                         distribute(s, n, js, q, qDot))

(* ------------------------------ the caller ----------------------------- *)
ramp(L) == Tup([i \in 1..L |-> i % (MaxVal + 1)])

const(L, c) == Tup([i \in 1..L |-> c])

\* the caller's vectors have the length it set up (MaxNq before any setup)
ArgLen == IF _nq > 0 THEN _nq ELSE MaxNq

\* the (q, qDot) pairs a caller evaluates
ODEArgs(L) == { << ramp(L), const(L, MaxVal) >>, << const(L, MaxVal), zeros(L) >> }

\* the (q, qDot, qDDot) triples a caller distributes
StateArgs(L) == { << ramp(L), zeros(L), const(L, MaxVal) >> }

RECURSIVE MaxIndex(_, _)
\* the largest index owned by one of the first k joints
MaxIndex(s, k) ==
  IF k = 0 THEN 0
  ELSE IF s.qIndex[k] > MaxIndex(s, k - 1) THEN s.qIndex[k] ELSE MaxIndex(s, k - 1)

\* the caller sets up a count that leaves no joint index outside the vectors,
\* or a non-positive one
Setup ==
  \E n \in 0..MaxNq :
    /\ n = 0 \/ n >= MaxIndex(sys, NBodies(sys))
    /\ setup(n)

UpdateKinTree ==
  LET r == updateKinTree(sys, _nq, joints, bodies)
  IN  /\ bodies' = r.bodies
      /\ ret' = Ret("updateKinTree", r.err, << >>)
      /\ locals' = NoLocals
      /\ UNCHANGED << sys, _nq, joints, nBodyOps >>

GetODE ==
  \E a \in ODEArgs(ArgLen) :
    LET r == getODE(sys, _nq, joints, bodies, a[1], a[2])
    IN  /\ joints' = r.joints
        /\ bodies' = r.bodies
        /\ ret' = Ret("getODE", r.err, r.val)
        /\ locals' = r.locals
        /\ UNCHANGED << sys, _nq, nBodyOps >>

RecursiveSetAllQ ==
  \E a \in StateArgs(ArgLen) :
    LET r == recursive_setall_q(sys, joints, a[1], a[2], a[3])
    IN  /\ joints' = r.joints
        /\ ret' = Ret("recursive_setall_q", r.err, << >>)
        /\ locals' = [NoLocals EXCEPT !.q = a[1], !.qDot = a[2], !.qDDot = a[3]]
        /\ UNCHANGED << sys, _nq, bodies, nBodyOps >>

\* the arguments of an immediately preceding, successful distribution stay in
\* locals so that the collected vectors can be compared with them
RecursiveGetAllQ ==
  LET r == recursive_getall_q(sys, _nq, joints)
  IN  /\ ret' = Ret("recursive_getall_q", r.err,
                    IF r.err = "none" THEN << r.q, r.qDot, r.qDDot >> ELSE << >>)
      /\ locals' = IF ret.op = "recursive_setall_q" /\ ret.err = "none"
                   THEN locals ELSE NoLocals
      /\ UNCHANGED << sys, _nq, joints, bodies, nBodyOps >>

IntegrationStep ==
  \E b \in Bodies(sys) :
    /\ nBodyOps < MaxBodyOps
    /\ nBodyOps' = nBodyOps + 1
    /\ bodies' = [bodies EXCEPT ![b] = integrationStep(bodies[b])]
    /\ ret' = Ret("integrationStep", "none", << >>)
    /\ locals' = NoLocals
    /\ UNCHANGED << sys, _nq, joints >>

ComputeNaturalDynamics ==
  \E b \in Bodies(sys) :
    LET r == computeNaturalDynamics(sys, bodies[b], b)
    IN  /\ nBodyOps < MaxBodyOps
        /\ nBodyOps' = nBodyOps + 1
        /\ bodies' = [bodies EXCEPT ![b] = r.body]
        /\ ret' = Ret("computeNaturalDynamics", r.err, << >>)
        /\ locals' = NoLocals
        /\ UNCHANGED << sys, _nq, joints >>

Next ==
  \/ Setup
  \/ UpdateKinTree
  \/ GetODE
  \/ RecursiveSetAllQ
  \/ RecursiveGetAllQ
  \/ IntegrationStep
  \/ ComputeNaturalDynamics

Spec == Init /\ [][Next]_vars

(* ------------------------------- claims -------------------------------- *)
\* the latest call is a getODE that reached the linear solve
Assembled == ret.op = "getODE" /\ Len(locals.trace) = 5

IsZeroRow(row) == \A i \in 1..Len(row) : row[i] = 0

rhsOf(l) == VAdd(VAdd(l.Mfg.f, l.Mfg.g), l.tau)

\* C1: while _nq is not positive, reading nq raises the configuration error,
\* and so updateKinTree, getODE and recursive_getall_q end in that error
\* without a return value (getODE before it ran any of its steps)
C1_UnsetNqFails ==
  (_nq <= 0 /\ ret.op \in {"updateKinTree", "getODE", "recursive_getall_q"})
    => /\ nq(_nq).err = "AssertionError"
       /\ ret.err = "AssertionError"
       /\ ret.val = << >>
       /\ locals.trace = << >>

C1_Witness == _nq <= 0 /\ ret.op = "getODE" /\ ret.err = "AssertionError"

\* C2: once _nq is positive no step of the system changes it
C2_NqImmutable == [][_nq > 0 => _nq' = _nq]_vars

\* C3: every gathered all-zero row is removed together with its sigma entry,
\* the kept rows and sigmas are the gathered ones in order, nc counts the kept
\* rows, the system has nq + nc rows, and when every gathered row is zero the
\* system is M * qDDot = f + g + tau and fails only if M itself is singular
C3_ZeroRowsDropped ==
  Assembled =>
    LET l == locals
        kept == keptRows(l.colkeep, Len(l.colkeep))
    IN  /\ \A k \in 1..Len(l.J_gathered) : IsZeroRow(l.J_gathered[k]) => ~l.colkeep[k]
        /\ \A k \in 1..Len(l.J_lambda) : ~IsZeroRow(l.J_lambda[k])
        /\ l.nc = Len(l.J_lambda) /\ l.nc = Len(l.sigma_lambda) /\ l.nc = Len(kept)
        /\ \A k \in 1..Len(kept) : /\ l.J_lambda[k] = l.J_gathered[kept[k]]
                                     /\ l.sigma_lambda[k] = l.sigma_gathered[kept[k]]
        /\ Len(l.A) = _nq + l.nc /\ Len(l.b) = _nq + l.nc
        /\ (\A k \in 1..Len(l.J_gathered) : IsZeroRow(l.J_gathered[k]))
             => /\ l.A = l.Mfg.M
                /\ l.b = rhsOf(l)
                /\ (ret.err = "LinAlgError") <=> (Det(l.Mfg.M) = 0)

C3_Witness ==
  /\ Assembled /\ ret.err = "none" /\ locals.nc > 0
  /\ \E k \in 1..Len(locals.J_gathered) : IsZeroRow(locals.J_gathered[k])

\* C4: a singular assembled system ends getODE in LinAlgError with no return
\* value; only a regular one returns, and then nq accelerations
C4_SolveFailurePropagates ==
  Assembled =>
    /\ Det(locals.A) = 0 => (ret.err = "LinAlgError" /\ ret.val = << >>)
    /\ Det(locals.A) # 0 => (ret.err = "none" /\ Len(ret.val) = _nq)

C4_Witness == Assembled /\ ret.err = "LinAlgError" /\ locals.nc > 0

RECURSIVE allRows(_, _)
\* the rows of the first k constraints, each with its sigma
allRows(cons, k) ==
  IF k = 0 THEN << >>
  ELSE allRows(cons, k - 1) \o
       Tup([r \in 1..Len(cons[k].rows) |->
              [rows |-> << cons[k].rows[r] >>, sigma |-> << cons[k].sigma[r] >>]])

\* the mechanism without the constraint rows the latest evaluation dropped
withoutDropped ==
  LET rows == allRows(sys.cons, Len(sys.cons))
      kept == keptRows(locals.colkeep, Len(locals.colkeep))
  IN  [sys EXCEPT !.cons = Tup([k \in 1..Len(kept) |-> rows[kept[k]]])]

\* what a caller sees of an evaluation besides the returned accelerations
observed(err, js, bs) == << err, js, bs >>

\* C5: an evaluation that dropped rows differs, in what the caller sees
\* besides qDDot, from the evaluation of the same mechanism without those rows
C5_DropObservable ==
  (Assembled /\ \E k \in 1..Len(locals.colkeep) : ~locals.colkeep[k])
    => LET alt == getODE(withoutDropped, _nq, joints, bodies, locals.q, locals.qDot)
       IN  observed(ret.err, joints, bodies) # observed(alt.err, alt.joints, alt.bodies)

\* recursive_getall_q directly after a successful recursive_setall_q of
\* vectors of length nq
RoundTripCase ==
  /\ ret.op = "recursive_getall_q" /\ locals.q # << >>
  /\ _nq > 0 /\ Len(locals.q) = _nq

RoundTrips ==
  /\ ret.err = "none"
  /\ ret.val = << locals.q, locals.qDot, locals.qDDot >>

\* every index of the global vectors is owned by a joint
Covered == \A i \in 1.._nq : \E j \in 1..NBodies(sys) : sys.qIndex[j] = i

\* C6 as stated: the vectors collected directly after a distribution are the
\* distributed ones
C6_RoundTrip == RoundTripCase => RoundTrips

\* C6 amended: they are, provided every index 1..nq is owned by a joint; the
\* collected vectors have length nq in any case
C6_RoundTripCovered ==
  /\ (RoundTripCase /\ Covered) => RoundTrips
  /\ (ret.op = "recursive_getall_q" /\ ret.err = "none")
       => \A k \in 1..3 : Len(ret.val[k]) = _nq

C6_Witness ==
  RoundTripCase /\ Covered /\ NBodies(sys) = 2 /\ locals.q # zeros(_nq) /\ ret.err = "none"

InitJoints == [j \in 1..NBodies(sys) |-> InitJoint]

InitBodies == [b \in Bodies(sys) |-> InitBody]

\* C7: an evaluation that reached the solve leaves the joints and bodies, and
\* returns or raises, exactly as the same evaluation of a freshly built
\* mechanism does, and the root is in its reset state
C7_Memoryless ==
  Assembled =>
    LET fresh == getODE(sys, _nq, InitJoints, InitBodies, locals.q, locals.qDot)
    IN  /\ ret.err = fresh.err /\ ret.val = fresh.val
        /\ joints = fresh.joints
        /\ bodies = fresh.bodies
        /\ bodies[0] = RootState(_nq)

C7_Witness ==
  /\ Assembled /\ ret.err = "none" /\ nBodyOps > 0
  /\ \E j \in 1..NBodies(sys) : locals.accBefore[j] # 0

RECURSIVE subtree(_, _)
RECURSIVE subtrees(_, _, _)
\* the bodies of the subtree rooted at b
subtree(s, b) == {b} \cup subtrees(s, childJointsOf(s, b), Len(childJointsOf(s, b)))

subtrees(s, list, k) ==
  IF k = 0 THEN {} ELSE subtree(s, list[k]) \cup subtrees(s, list, k - 1)

plus(x, y) == [M |-> MatAdd(x.M, y.M), f |-> VAdd(x.f, y.f), g |-> VAdd(x.g, y.g)]

RECURSIVE sumLocal(_, _, _)
\* the sum of the local contributions of the bodies in S
sumLocal(s, bs, S) ==
  IF S = {} THEN [M |-> zerosMat(_nq, _nq), f |-> zeros(_nq), g |-> zeros(_nq)]
  ELSE LET x == CHOOSE y \in S : TRUE
       IN  plus(MfgLocal(s, bs, x), sumLocal(s, bs, S \ {x}))

reversed(list) == Tup([k \in 1..Len(list) |-> list[Len(list) + 1 - k]])

\* the mechanism with the children of every body in the opposite order
childrenReversed(s) ==
  [s EXCEPT !.childJoints = Tup([k \in 1..Len(s.childJoints) |-> reversed(s.childJoints[k])])]

\* C8: on every body the accumulation returns the sum of the contributions of
\* the bodies of its subtree, each once, whatever the order of the children;
\* the evaluation used the total of the root, and the bodies are as the
\* kinematics pass left them
C8_SubtreeSums ==
  Assembled =>
    /\ \A b \in Bodies(sys) :
         /\ _recursiveComputationOfMfg(sys, bodies, b) = sumLocal(sys, bodies, subtree(sys, b))
         /\ _recursiveComputationOfMfg(childrenReversed(sys), bodies, b)
              = _recursiveComputationOfMfg(sys, bodies, b)
    /\ locals.Mfg = sumLocal(sys, bodies, Bodies(sys))
    /\ bodies = updateKinTree(sys, _nq, joints, InitBodies).bodies

C8_Witness == Assembled /\ ret.err = "none" /\ NBodies(sys) = 2

Pipeline == << "distribute", "kinematics", "accumulate", "gather", "solve" >>

\* C9: the steps of an evaluation run in pipeline order, each on the result
\* of the one before; the joints store zero accelerations when the kinematics
\* and accumulation passes run and after the call, so the bodies carry bias
\* accelerations only
C9_Pipeline ==
  ret.op = "getODE" =>
    /\ locals.trace = SubSeq(Pipeline, 1, Len(locals.trace))
    /\ \A j \in 1..Len(locals.accAtFK) : locals.accAtFK[j] = 0
    /\ Assembled =>
         /\ \A j \in 1..NBodies(sys) :
              /\ locals.accAtMfg[j] = 0
              /\ joints[j] = [q |-> locals.q[sys.qIndex[j]],
                              qDot |-> locals.qDot[sys.qIndex[j]], qDDot |-> 0]
         /\ bodies = updateKinTree(sys, _nq, joints, InitBodies).bodies
         /\ \A b \in Bodies(sys) : /\ bodies[b].B_a_B = zeros(3)
                                    /\ bodies[b].B_omegaDot_B = zeros(3)
         /\ locals.Mfg = _recursiveComputationOfMfg(sys, bodies, 0)
         /\ locals.J_gathered = gatherConstraints(sys.cons, Len(sys.cons), _nq).J
         /\ locals.A = assemble(locals.Mfg.M, rhsOf(locals),
                                gatherConstraints(sys.cons, Len(sys.cons), _nq), _nq).A
         /\ ret.val = solve(locals.A, locals.b, _nq).val

C9_Witness ==
  /\ Assembled /\ ret.err = "none"
  /\ \E j \in 1..NBodies(sys) : locals.accBefore[j] # 0

\* C10: a gathered row with a nonzero entry is kept
C10_OnlyZeroRowsDropped ==
  Assembled =>
    \A k \in 1..Len(locals.J_gathered) : ~IsZeroRow(locals.J_gathered[k]) => locals.colkeep[k]
====
